---- MODULE Spec2Model ----
(***************************************************************************)
(* Oratio backend (src/main.py): the bias-analysis path of the service.    *)
(*                                                                         *)
(* Modelled: the module-level provider globals, lifespan (startup), the    *)
(* two provider adapters analyze_text_with_gemini / analyze_text_with_groq *)
(* with their reply parsing, analyze_text_with_fallback, the /analyze      *)
(* handler analyze_text (one loop iteration per step) and /status.         *)
(*                                                                         *)
(* Texts (request text, sentences, suggestions) are sequences of           *)
(* one-character strings.  A provider reply is a sequence of lexical       *)
(* tokens ("FENCE" for three backticks, "json", "{", "}", a body token,    *)
(* "prose", "\n", "42").                                                   *)
(* An exception message is a sequence of words.                            *)
(*                                                                         *)
(* The handlers are "async def" but never await, so each request runs to   *)
(* completion on the event loop before another handler starts: the model   *)
(* has one request in flight at a time.                                    *)
(***************************************************************************)
EXTENDS Integers, Sequences, FiniteSets, TLC

VARIABLES
    GEMINI_API_KEY,         \* config value read by lifespan (main.py:32)
    GROQ_API_KEY,           \* os.getenv("GROQ_API_KEY", "") (main.py:35)
    gemini_model,           \* global, main.py:47
    groq_client,            \* global, main.py:48
    current_provider,       \* global, main.py:49
    gemini_quota_exceeded,  \* global, main.py:50
    phase,                  \* "boot" before lifespan has run, then "serving"
    startup,                \* what the two SDKs did during lifespan
    pc,                     \* position of the /analyze handler: "idle" | "loop"
    text,                   \* analyze_text local: request.text.strip()
    sentences,              \* analyze_text local
    idx,                    \* 1-based index of the for loop over sentences
    sentence_analyses,      \* analyze_text local
    total_biased_count,     \* analyze_text local
    unit_run,               \* the last analyze_text_with_fallback invocation
    response,               \* the HTTP response of the last finished handler
    workers                 \* ConcSpec only: where each concurrent caller of
                            \* analyze_text_with_fallback stands

vars == <<GEMINI_API_KEY, GROQ_API_KEY, gemini_model, groq_client,
          current_provider, gemini_quota_exceeded, phase, startup, pc, text,
          sentences, idx, sentence_analyses, total_biased_count, unit_run,
          response, workers>>

provider_vars == <<gemini_model, groq_client, current_provider,
                   gemini_quota_exceeded>>

request_vars == <<pc, text, sentences, idx, sentence_analyses,
                  total_biased_count, unit_run>>

(***************************************************************************)
(* Bounds                                                                  *)
(***************************************************************************)
\* Largest number of sentences in a generated request text.
MaxUnits == 3

\* Number of concurrent callers of analyze_text_with_fallback in ConcSpec.
NumWorkers == 2

(***************************************************************************)
(* Sequence helpers                                                        *)
(***************************************************************************)
Contains(seq, x) == \E i \in 1..Len(seq) : seq[i] = x

StartsWith(seq, prefix) ==
    /\ Len(seq) >= Len(prefix)
    /\ SubSeq(seq, 1, Len(prefix)) = prefix

EndsWith(seq, suffix) ==
    /\ Len(seq) >= Len(suffix)
    /\ SubSeq(seq, Len(seq) - Len(suffix) + 1, Len(seq)) = suffix

\* seq[n:] of Python (n >= 0)
DropFirst(seq, n) == IF n >= Len(seq) THEN <<>> ELSE SubSeq(seq, n + 1, Len(seq))

\* seq[:-n] of Python (n > 0)
DropLast(seq, n) == IF n >= Len(seq) THEN <<>> ELSE SubSeq(seq, 1, Len(seq) - n)

Whitespace == {" ", "\n", "\t"}

RECURSIVE LStrip(_)
LStrip(s) ==
    IF s # <<>> /\ Head(s) \in Whitespace THEN LStrip(Tail(s)) ELSE s

RECURSIVE RStrip(_)
RStrip(s) ==
    IF s # <<>> /\ s[Len(s)] \in Whitespace THEN RStrip(DropLast(s, 1)) ELSE s

\* str.strip()
Strip(s) == RStrip(LStrip(s))

(***************************************************************************)
(* Exception messages and their classification                             *)
(***************************************************************************)
\* str.lower() on the words a message is made of
LowerWord(w) ==
    CASE w = "Quota" -> "quota"
      [] w = "QUOTA" -> "quota"
      [] OTHER -> w

Lower(msg) == [i \in 1..Len(msg) |-> LowerWord(msg[i])]

\* The test every handler applies to an error string:
\*     "quota" in error_str.lower() or "429" in error_str
IsQuotaMessage(error_str) ==
    Contains(Lower(error_str), "quota") \/ Contains(error_str, "429")

\* Messages the provider SDKs raise with.
SdkErrors ==
    { <<"429", "Too", "Many", "Requests">>,
      <<"Quota", "exceeded", "for", "metric">>,
      <<"Connection", "timed", "out">> }

HTTPException(status_code, detail) ==
    [status_code |-> status_code, detail |-> detail]

\* str(HTTPException) is "<status_code>: <detail>" (starlette's __str__).
StrOfHTTPException(e) == <<e.status_code, ":">> \o e.detail

\* str(json.JSONDecodeError)
JSONDecodeErrorMessage == <<"Expecting", "value", ":", "line", "1", "column", "1">>

(***************************************************************************)
(* Provider replies and JSON                                               *)
(*                                                                         *)
(* A parsed JSON object is a record with the set of keys it holds ("keys") *)
(* and a field per key the program reads; d.get(k, default) is Get.        *)
(***************************************************************************)
None == "None"

\* A suggestion text returned by a provider.
ProviderSuggestion == <<"o", "k">>

Span(start, end, keys) ==
    [keys |-> keys, text |-> <<"x">>, start |-> start, end |-> end,
     type |-> "gender_bias"]

SpanKeys == {"text", "start", "end", "type"}

SentenceDict(sentence, biased_spans, suggestion) ==
    [keys |-> {"sentence", "biased_spans", "suggestion"},
     sentence |-> sentence, biased_spans |-> biased_spans,
     suggestion |-> suggestion]

\* {}
EmptyDict == [keys |-> {}, sentence |-> <<>>, biased_spans |-> <<>>,
              suggestion |-> <<>>]

AnalysisDict(keys, sents) == [kind |-> "dict", keys |-> keys, sentences |-> sents]

JsonInt == [kind |-> "int", keys |-> {}, sentences |-> <<>>]

AnalysisKeys == {"biased_count", "score", "sentences"}

\* What the text between the braces of a reply denotes.  "junk" and any
\* other token denote nothing: text that is not valid JSON.
BodyTokens == {"B0", "B1", "B2", "Binv", "Bbad", "Bnosent"}

BodyValue(b) ==
    CASE b = "B0" ->
           AnalysisDict(AnalysisKeys,
               <<SentenceDict(<<"s">>, <<>>, ProviderSuggestion)>>)
      [] b = "B1" ->
           AnalysisDict(AnalysisKeys,
               <<SentenceDict(<<"s">>, <<Span(0, 1, SpanKeys)>>,
                              ProviderSuggestion)>>)
      [] b = "B2" ->
           AnalysisDict(AnalysisKeys,
               <<SentenceDict(<<"s">>,
                              <<Span(0, 1, SpanKeys), Span(1, 2, SpanKeys)>>,
                              ProviderSuggestion)>>)
      [] b = "Binv" ->
           \* a span whose start is not below its end
           AnalysisDict(AnalysisKeys,
               <<SentenceDict(<<"s">>, <<Span(2, 1, SpanKeys)>>,
                              ProviderSuggestion)>>)
      [] b = "Bbad" ->
           \* a span without "end": BiasedSpan(**span) rejects it
           AnalysisDict(AnalysisKeys,
               <<SentenceDict(<<"s">>, <<Span(0, 0, {"text", "start", "type"})>>,
                              ProviderSuggestion)>>)
      [] b = "Bnosent" ->
           AnalysisDict(AnalysisKeys, <<>>)

JsonWhitespace == {" ", "\n", "\t"}

RECURSIVE SkipJsonWhitespace(_)
SkipJsonWhitespace(toks) ==
    IF toks = <<>> THEN <<>>
    ELSE IF Head(toks) \in JsonWhitespace THEN SkipJsonWhitespace(Tail(toks))
    ELSE <<Head(toks)>> \o SkipJsonWhitespace(Tail(toks))

\* json.loads: [ok |-> TRUE, value |-> v], or ok = FALSE for JSONDecodeError.
json_loads(toks) ==
    LET t == SkipJsonWhitespace(toks) IN
    IF t = <<"{", "}">> THEN [ok |-> TRUE, value |-> AnalysisDict({}, <<>>)]
    ELSE IF Len(t) = 3 /\ t[1] = "{" /\ t[3] = "}" /\ t[2] \in BodyTokens
         THEN [ok |-> TRUE, value |-> BodyValue(t[2])]
    ELSE IF t = <<"42">> THEN [ok |-> TRUE, value |-> JsonInt]
    ELSE [ok |-> FALSE, value |-> JsonInt]

Indices(seq, x) == {i \in 1..Len(seq) : seq[i] = x}

Min(S) == CHOOSE x \in S : \A y \in S : x <= y
Max(S) == CHOOSE x \in S : \A y \in S : x >= y

\* re.search(r'\{.*\}', s, re.DOTALL): the leftmost "{" that has a "}" after
\* it, up to the last "}".  [found |-> FALSE] when there is none.
SearchBraces(s) ==
    LET opens == Indices(s, "{")
        closes == Indices(s, "}")
    IN IF opens # {} /\ closes # {} /\ Min(opens) < Max(closes)
       THEN [found |-> TRUE, group |-> SubSeq(s, Min(opens), Max(closes))]
       ELSE [found |-> FALSE, group |-> <<>>]

\* The record both adapters return when they give up on parsing a reply.
NeutralAnalysis(txt) ==
    AnalysisDict(AnalysisKeys, <<SentenceDict(txt, <<>>, txt)>>)

\* Outcome of one SDK call: a reply text, or an exception with a message.
Reply(toks) == [kind |-> "reply", body |-> toks]
Raise(msg) == [kind |-> "raise", body |-> msg]

\* Outcome of a Python call: a returned value or a raised exception.
Returned(v) == [raised |-> FALSE, value |-> v]
Raised(e) == [raised |-> TRUE, exc |-> e]

(***************************************************************************)
(* The provider adapters.  sdk is what the remote call does: Reply(tokens) *)
(* or Raise(message).  Both read the globals gemini_model / groq_client.   *)
(***************************************************************************)
\* Replies the remote models give in this model.
ReplyTexts ==
    { <<"{", "B1", "}">>,                                  \* a bare object
      <<"{", "B2", "}">>,
      <<"{", "Binv", "}">>,                                \* span with start > end
      <<"{", "Bbad", "}">>,                                \* span without "end"
      <<"FENCE", "json", "\n", "{", "B0", "}", "\n", "FENCE">>, \* fenced, tagged
      <<"FENCE", "\n", "{", "B1", "}", "\n", "FENCE">>,    \* fenced, no tag
      <<"prose", "{", "B0", "}", "prose">>,                \* object inside prose
      <<"prose">>,                                         \* no object at all
      <<"{", "junk", "}">> }                               \* braces, malformed

SdkOutcomes == {Reply(t) : t \in ReplyTexts} \cup {Raise(m) : m \in SdkErrors}

\* except Exception as e (main.py:518-530): the HTTPException raised instead
GeminiError(error_str) ==
    IF IsQuotaMessage(error_str)
    THEN HTTPException("503", <<"API", "quota", "exceeded", ".", "Please",
                                "try", "again", "later">>)
    ELSE HTTPException("500", <<"Error", "analyzing", "text", ":">> \o error_str)

\* The reply text after the markdown removal of main.py:492-498
GeminiUnfence(response_text) ==
    LET t0 == Strip(response_text)
        t1 == IF StartsWith(t0, <<"FENCE", "json">>) THEN DropFirst(t0, 2) ELSE t0
    IN IF EndsWith(t1, <<"FENCE">>) THEN DropLast(t1, 1) ELSE t1

analyze_text_with_gemini(txt, sdk) ==
    IF gemini_model = None
    THEN Raised(HTTPException("503", <<"Gemini", "API", "not", "available">>))
    ELSE IF sdk.kind = "raise" THEN Raised(GeminiError(sdk.body))
    ELSE LET parsed == json_loads(GeminiUnfence(sdk.body)) IN
         IF parsed.ok THEN Returned(parsed.value)
         ELSE Returned(NeutralAnalysis(txt))     \* except json.JSONDecodeError

\* except Exception as e (main.py:386-398)
GroqError(error_str) ==
    IF IsQuotaMessage(error_str)
    THEN HTTPException("503", <<"Groq", "API", "quota", "exceeded", ".",
                                "Please", "try", "again", "later", ".">>)
    ELSE HTTPException("500", <<"Error", "analyzing", "text", "with", "Groq",
                                ":">> \o error_str)

analyze_text_with_groq(txt, sdk) ==
    IF groq_client = None
    THEN Raised(HTTPException("503", <<"Groq", "API", "not", "available">>))
    ELSE IF sdk.kind = "raise" THEN Raised(GroqError(sdk.body))
    ELSE LET json_match == SearchBraces(Strip(sdk.body)) IN
         IF json_match.found
         THEN LET parsed == json_loads(json_match.group) IN
              IF parsed.ok THEN Returned(parsed.value)
              \* json.loads raises inside the try: the generic handler
              \* turns the JSONDecodeError into an HTTPException
              ELSE Raised(GroqError(JSONDecodeErrorMessage))
         ELSE Returned(NeutralAnalysis(txt))

(***************************************************************************)
(* analyze_text_with_fallback (main.py:400-438).  FallbackRuns(txt) is the *)
(* set of its possible executions from the current globals, one per choice *)
(* of what each remote call it makes does.  An execution is a record:      *)
(*   calls    the adapter calls made, in order: [provider, sdk, result]    *)
(*   outcome  Returned(analysis) or Raised(HTTPException)                  *)
(*   current_provider, gemini_quota_exceeded   the globals afterwards      *)
(***************************************************************************)
Call(provider, sdk, result) ==
    [provider |-> provider, sdk |-> sdk, result |-> result]

Run(calls, outcome, cp, quota) ==
    [calls |-> calls, outcome |-> outcome, current_provider |-> cp,
     gemini_quota_exceeded |-> quota, sentence |-> <<>>]

AllProvidersUnavailable ==
    HTTPException("503", <<"All", "AI", "providers", "are", "currently",
                           "unavailable", ".", "Please", "try", "again",
                           "later", ".">>)

\* main.py:405
TryGeminiFirst(cp, quota) == cp = "gemini" /\ gemini_model # None /\ ~quota

\* Variant of AfterGeminiError that assigns the flag from the test instead
\* of only ever setting it: "gemini_quota_exceeded = is_quota".
AfterGeminiError_AssignsFlag(error_str, cp, quota) ==
    [current_provider |-> IF IsQuotaMessage(error_str) THEN "groq" ELSE cp,
     gemini_quota_exceeded |-> IsQuotaMessage(error_str)]

\* Variant of AfterGeminiError that forgets "current_provider = 'groq'".
AfterGeminiError_KeepsProvider(error_str, cp, quota) ==
    IF IsQuotaMessage(error_str)
    THEN [current_provider |-> cp, gemini_quota_exceeded |-> TRUE]
    ELSE [current_provider |-> cp, gemini_quota_exceeded |-> quota]

\* Variant of AfterGeminiError that forgets "gemini_quota_exceeded = True".
AfterGeminiError_KeepsFlag(error_str, cp, quota) ==
    IF IsQuotaMessage(error_str)
    THEN [current_provider |-> "groq", gemini_quota_exceeded |-> quota]
    ELSE [current_provider |-> cp, gemini_quota_exceeded |-> quota]

\* main.py:408-417: the globals after a failed Gemini call
AfterGeminiError(error_str, cp, quota) ==
    IF IsQuotaMessage(error_str)
    THEN [current_provider |-> "groq", gemini_quota_exceeded |-> TRUE]
    ELSE [current_provider |-> cp, gemini_quota_exceeded |-> quota]

\* main.py:420
TryGroq(cp) == cp = "groq" /\ groq_client # None

\* Variant of TryGeminiAgain without "and not gemini_quota_exceeded".
TryGeminiAgain_IgnoresQuota(quota) == gemini_model # None

\* main.py:426
TryGeminiAgain(quota) == gemini_model # None /\ ~quota

\* Variant of RaiseUnavailable that returns an empty analysis instead.
RaiseUnavailable_ReturnsEmpty(calls, cp, quota) ==
    {Run(calls, Returned(AnalysisDict(AnalysisKeys, <<>>)), cp, quota)}

\* main.py:434-438
RaiseUnavailable(calls, cp, quota) ==
    {Run(calls, Raised(AllProvidersUnavailable), cp, quota)}

\* Variant of OnSuccess that takes a successful call as a sign that the
\* quota is back.
OnSuccess_ClearsQuota(calls, r, cp, quota) == {Run(calls, r, cp, FALSE)}

\* main.py:407, 422, 430: "return analyze_text_with_...(text)"; the value is
\* returned as is and no global is written
OnSuccess(calls, r, cp, quota) == {Run(calls, r, cp, quota)}

\* main.py:427-432
GeminiAgainRuns(txt, calls, quota) ==
    UNION { LET r == analyze_text_with_gemini(txt, sdk)
                cs == Append(calls, Call("gemini", sdk, r))
            IN IF ~r.raised THEN OnSuccess(cs, r, "gemini", quota)
               ELSE RaiseUnavailable(cs, "gemini", quota)
            : sdk \in SdkOutcomes }

\* main.py:420-432
GroqRuns(txt, calls, cp, quota) ==
    IF TryGroq(cp)
    THEN UNION { LET r == analyze_text_with_groq(txt, sdk)
                     cs == Append(calls, Call("groq", sdk, r))
                 IN IF ~r.raised THEN OnSuccess(cs, r, cp, quota)
                    ELSE IF TryGeminiAgain(quota)
                         THEN GeminiAgainRuns(txt, cs, quota)
                         ELSE RaiseUnavailable(cs, cp, quota)
                 : sdk \in SdkOutcomes }
    ELSE RaiseUnavailable(calls, cp, quota)

FallbackRuns(txt) ==
    IF TryGeminiFirst(current_provider, gemini_quota_exceeded)
    THEN UNION { LET r == analyze_text_with_gemini(txt, sdk)
                     cs == <<Call("gemini", sdk, r)>>
                 IN IF ~r.raised
                    THEN OnSuccess(cs, r, current_provider,
                                   gemini_quota_exceeded)
                    ELSE LET g == AfterGeminiError(StrOfHTTPException(r.exc),
                                      current_provider, gemini_quota_exceeded)
                         IN GroqRuns(txt, cs, g.current_provider,
                                     g.gemini_quota_exceeded)
                 : sdk \in SdkOutcomes }
    ELSE GroqRuns(txt, <<>>, current_provider, gemini_quota_exceeded)

(***************************************************************************)
(* lifespan (main.py:156-238)                                              *)
(***************************************************************************)
NotCalled == [kind |-> "not_called", body |-> <<>>]
Ok == [kind |-> "ok", body |-> <<>>]

GroqPlaceholderKey == "your_groq_api_key_here"

\* What genai.configure / genai.GenerativeModel may do, and the test call.
GeminiCtorOutcomes ==
    {Ok, Raise(<<"429", "Too", "Many", "Requests">>),
         Raise(<<"Connection", "timed", "out">>)}
GeminiProbeOutcomes == {Ok} \cup {Raise(m) : m \in SdkErrors}

\* What Groq(api_key=...) may do, and the test call.
GroqCtorOutcomes == {Ok, Raise(<<"Connection", "timed", "out">>)}
GroqProbeOutcomes == {Ok, Raise(<<"Connection", "timed", "out">>)}

\* main.py:166-196: gemini_model and gemini_quota_exceeded after the Gemini
\* block.  Both start from their module-level values (None, False).
LifespanGemini(key, ctor, probe) ==
    IF key = ""
    THEN \* ValueError("GEMINI_API_KEY is required"): the outer handler
         [gemini_model |-> None,
          gemini_quota_exceeded |->
              IsQuotaMessage(<<"GEMINI_API_KEY", "is", "required">>)]
    ELSE IF ctor.kind = "raise"
    THEN [gemini_model |-> None,
          gemini_quota_exceeded |-> IsQuotaMessage(ctor.body)]
    ELSE [gemini_model |-> "GenerativeModel",
          gemini_quota_exceeded |->
              (probe.kind = "raise" /\ IsQuotaMessage(probe.body))]

\* main.py:200-223: groq_client after the Groq block
LifespanGroq(key, ctor) ==
    IF key = "" \/ key = GroqPlaceholderKey THEN None
    ELSE IF ctor.kind = "raise" THEN None
    ELSE "Groq"

\* Variant of DetermineActiveProvider without "and not gemini_quota_exceeded".
DetermineActiveProvider_IgnoresQuota(model, client, quota) ==
    IF model # None THEN "gemini"
    ELSE IF client # None THEN "groq"
    ELSE "none"

\* main.py:226-233
DetermineActiveProvider(model, client, quota) ==
    IF model # None /\ ~quota THEN "gemini"
    ELSE IF client # None THEN "groq"
    ELSE "none"

Lifespan ==
    /\ phase = "boot"
    /\ \E gc \in GeminiCtorOutcomes \cup {NotCalled},
          gp \in GeminiProbeOutcomes \cup {NotCalled},
          qc \in GroqCtorOutcomes \cup {NotCalled},
          qp \in GroqProbeOutcomes \cup {NotCalled} :
          \* a call that the code does not reach is recorded as NotCalled
          /\ (gc = NotCalled) <=> (GEMINI_API_KEY = "")
          /\ (gp = NotCalled) <=> (gc # Ok)
          /\ (qc = NotCalled) <=> (GROQ_API_KEY \in {"", GroqPlaceholderKey})
          /\ (qp = NotCalled) <=> (qc # Ok)
          /\ LET g == LifespanGemini(GEMINI_API_KEY, gc, gp)
                 client == LifespanGroq(GROQ_API_KEY, qc)
             IN /\ gemini_model' = g.gemini_model
                /\ gemini_quota_exceeded' = g.gemini_quota_exceeded
                /\ groq_client' = client
                /\ current_provider' =
                       DetermineActiveProvider(g.gemini_model, client,
                                               g.gemini_quota_exceeded)
          /\ startup' = [gemini_ctor |-> gc, gemini_probe |-> gp,
                         groq_ctor |-> qc, groq_probe |-> qp]
    /\ phase' = "serving"
    /\ UNCHANGED <<workers, GEMINI_API_KEY, GROQ_API_KEY, request_vars, response>>

(***************************************************************************)
(* analyze_text (main.py:532-595)                                          *)
(***************************************************************************)
Terminators == {".", "!", "?"}

\* re.split(r'[.!?]+', s): the pieces between maximal runs of terminators,
\* empty pieces included.  cur is the piece being read, inRun whether the
\* previous character was a terminator.
RECURSIVE ReSplit(_, _, _)
ReSplit(s, cur, inRun) ==
    IF s = <<>> THEN <<cur>>
    ELSE IF Head(s) \in Terminators
         THEN IF inRun THEN ReSplit(Tail(s), cur, TRUE)
              ELSE <<cur>> \o ReSplit(Tail(s), <<>>, TRUE)
    ELSE ReSplit(Tail(s), Append(cur, Head(s)), FALSE)

\* Variant of StripNonEmpty that keeps the kept pieces untrimmed.
RECURSIVE StripNonEmpty_NoStrip(_)
StripNonEmpty_NoStrip(pieces) ==
    IF pieces = <<>> THEN <<>>
    ELSE IF Strip(Head(pieces)) # <<>>
         THEN <<Head(pieces)>> \o StripNonEmpty_NoStrip(Tail(pieces))
    ELSE StripNonEmpty_NoStrip(Tail(pieces))

\* [s.strip() for s in pieces if s.strip()]
RECURSIVE StripNonEmpty(_)
StripNonEmpty(pieces) ==
    IF pieces = <<>> THEN <<>>
    ELSE IF Strip(Head(pieces)) # <<>>
         THEN <<Strip(Head(pieces))>> \o StripNonEmpty(Tail(pieces))
    ELSE StripNonEmpty(Tail(pieces))

\* main.py:540-541
Segment(txt) == StripNonEmpty(ReSplit(txt, <<>>, FALSE))

Get(d, k, default) == IF k \in d.keys THEN d[k] ELSE default

\* BiasedSpan(**span) validates: the four fields are required
BiasedSpanValid(span) == SpanKeys \subseteq span.keys

BiasedSpan(span) ==
    [text |-> span.text, start |-> span.start, end |-> span.end,
     type |-> span.type]

SentenceAnalysis(sentence, biased_spans, suggestion) ==
    [sentence |-> sentence, biased_spans |-> biased_spans,
     suggestion |-> suggestion]

\* Variant of CountSpans that counts biased sentences instead of spans.
CountSpans_PerSentence(biased_spans) == IF biased_spans = <<>> THEN 0 ELSE 1

\* main.py:574: the amount added to total_biased_count
CountSpans(biased_spans) == Len(biased_spans)

\* Variant of AppendAnalysis that puts the newest record first.
AppendAnalysis_Front(analyses, record) == <<record>> \o analyses

\* main.py:568 and 579: sentence_analyses.append(...)
AppendAnalysis(analyses, record) == Append(analyses, record)

\* main.py:576-583: the record appended when the try block raised
ExceptFallback(sentence) ==
    [record |-> SentenceAnalysis(sentence, <<>>, sentence), counted |-> 0]

\* main.py:553-583: one iteration of the loop, given what
\* analyze_text_with_fallback(sentence) did: the record appended and the
\* amount added to total_biased_count.
UnitAnalysis(sentence, outcome) ==
    IF outcome.raised THEN ExceptFallback(sentence)
    ELSE LET analysis == outcome.value IN
         \* analysis.get on a value that is no dict: AttributeError
         IF analysis.kind # "dict" THEN ExceptFallback(sentence)
         ELSE LET sentence_data ==
                      IF Get(analysis, "sentences", <<>>) # <<>>
                      THEN analysis.sentences[1] ELSE EmptyDict
                  biased_spans == Get(sentence_data, "biased_spans", <<>>)
                  suggestion == Get(sentence_data, "suggestion", sentence)
              IN IF \E i \in 1..Len(biased_spans) :
                        ~BiasedSpanValid(biased_spans[i])
                 THEN ExceptFallback(sentence)       \* ValidationError
                 ELSE [record |->
                          SentenceAnalysis(sentence,
                              [i \in 1..Len(biased_spans) |->
                                  BiasedSpan(biased_spans[i])],
                              suggestion),
                       counted |-> CountSpans(biased_spans)]

\* Variant of Score that cuts the quotient to two decimals instead of
\* rounding it.
Score_Truncates(total, n) ==
    IF n = 0 THEN 0
    ELSE IF total >= n THEN 100
    ELSE (100 * total) \div n

\* main.py:586 and 592: round(min(total / n, 1.0), 2) if n else 0.0, in
\* hundredths; an exact tie rounds to even.
Score(total, n) ==
    IF n = 0 THEN 0
    ELSE IF total >= n THEN 100
    ELSE LET q == (100 * total) \div n
             r == (100 * total) % n
         IN IF 2 * r < n THEN q
            ELSE IF 2 * r > n THEN q + 1
            ELSE IF q % 2 = 0 THEN q ELSE q + 1

NoResponse == [kind |-> "none"]

\* unit_run before the first sentence of a request is analysed
NoRun == [calls |-> <<>>, outcome |-> Returned(JsonInt),
          current_provider |-> "none", gemini_quota_exceeded |-> FALSE,
          sentence |-> <<>>]

HttpError(status_code, detail) ==
    [kind |-> "error", status_code |-> status_code, detail |-> detail]

AnalyzeResponse(original_text, biased_count, n, analyses) ==
    [kind |-> "report", original_text |-> original_text,
     summary |-> [biased_count |-> biased_count,
                  score |-> Score(biased_count, n)],
     sentences |-> analyses]

Letters == <<"a", "b", "c", "d", "e">>
Ends == <<".", "!", "?", ".", "!">>

\* "a. b! c? ..." with n sentences
RECURSIVE Sample(_)
Sample(n) ==
    IF n = 0 THEN <<>> ELSE Sample(n - 1) \o <<Letters[n], Ends[n], " ">>

\* Request bodies sent to /analyze.
RequestTexts ==
    {Sample(n) : n \in 0..MaxUnits}
        \cup { <<" ", "\t">>, <<"?", "!", " ", ".">>,
               <<" ", "a", " ", "b">>, <<".", "a", "!", "?", " ">> }

\* Variant of InputError without the check of line 543.
InputError_SkipsSentenceCheck(txt, sents) ==
    IF txt = <<>> THEN HttpError("400", "Text cannot be empty")
    ELSE NoResponse

\* main.py:536-544: the HTTPException raised for the stripped text and its
\* sentences, NoResponse when none is raised
InputError(txt, sents) ==
    IF txt = <<>> THEN HttpError("400", "Text cannot be empty")
    ELSE IF sents = <<>> THEN HttpError("400", "No valid sentences found")
    ELSE NoResponse

\* main.py:535-547 for a request whose text is body
BeginWith(body) ==
    LET txt == Strip(body)
        sents == Segment(txt)
        err == InputError(txt, sents)
    IN IF err # NoResponse
       THEN /\ response' = err
            /\ UNCHANGED request_vars
       ELSE /\ pc' = "loop"
            /\ text' = txt
            /\ sentences' = sents
            /\ idx' = 1
            /\ sentence_analyses' = <<>>
            /\ total_biased_count' = 0
            /\ unit_run' = NoRun
            /\ response' = NoResponse

\* main.py:535-547: up to the start of the loop
AnalyzeTextBegin ==
    /\ phase = "serving"
    /\ pc = "idle"
    /\ \E body \in RequestTexts : BeginWith(body)
    /\ UNCHANGED <<workers, GEMINI_API_KEY, GROQ_API_KEY, provider_vars, phase, startup>>

\* main.py:549-583: one iteration of "for sentence in sentences"
AnalyzeTextUnit ==
    /\ pc = "loop"
    /\ idx <= Len(sentences)
    /\ LET sentence == sentences[idx] IN
       \E run \in FallbackRuns(sentence) :
          LET u == UnitAnalysis(sentence, run.outcome) IN
          /\ current_provider' = run.current_provider
          /\ gemini_quota_exceeded' = run.gemini_quota_exceeded
          /\ sentence_analyses' = AppendAnalysis(sentence_analyses, u.record)
          /\ total_biased_count' = total_biased_count + u.counted
          /\ unit_run' = [run EXCEPT !.sentence = sentence]
    /\ idx' = idx + 1
    /\ UNCHANGED <<workers, GEMINI_API_KEY, GROQ_API_KEY, gemini_model, groq_client,
                   phase, startup, pc, text, sentences, response>>

\* main.py:585-595: the handler returns; its locals are gone
AnalyzeTextReturn ==
    /\ pc = "loop"
    /\ idx > Len(sentences)
    /\ response' = AnalyzeResponse(text, total_biased_count, Len(sentences),
                                   sentence_analyses)
    /\ pc' = "idle"
    /\ text' = <<>>
    /\ sentences' = <<>>
    /\ idx' = 1
    /\ sentence_analyses' = <<>>
    /\ total_biased_count' = 0
    /\ unit_run' = NoRun
    /\ UNCHANGED <<workers, GEMINI_API_KEY, GROQ_API_KEY, provider_vars, phase, startup>>

\* Variant of StatusInfo that reports the provider chosen at import time.
StatusInfo_InitialProvider ==
    [kind |-> "status",
     current_provider |-> "gemini",
     gemini_available |-> (gemini_model # None),
     gemini_quota_exceeded |-> gemini_quota_exceeded,
     groq_available |-> (groq_client # None),
     fallback_enabled |-> (groq_client # None)]

\* main.py:597-610
StatusInfo ==
    [kind |-> "status",
     current_provider |-> current_provider,
     gemini_available |-> (gemini_model # None),
     gemini_quota_exceeded |-> gemini_quota_exceeded,
     groq_available |-> (groq_client # None),
     fallback_enabled |-> (groq_client # None)]

get_status ==
    /\ phase = "serving"
    /\ pc = "idle"
    /\ response' = StatusInfo
    /\ UNCHANGED <<workers, GEMINI_API_KEY, GROQ_API_KEY, provider_vars, phase, startup,
                   request_vars>>

(***************************************************************************)
(* The system                                                              *)
(***************************************************************************)
Init ==
    /\ GEMINI_API_KEY \in {"", "gemini-key"}
    /\ GROQ_API_KEY \in {"", GroqPlaceholderKey, "groq-key"}
    /\ gemini_model = None
    /\ groq_client = None
    /\ current_provider = "gemini"
    /\ gemini_quota_exceeded = FALSE
    /\ phase = "boot"
    /\ startup = [gemini_ctor |-> NotCalled, gemini_probe |-> NotCalled,
                  groq_ctor |-> NotCalled, groq_probe |-> NotCalled]
    /\ pc = "idle"
    /\ text = <<>>
    /\ sentences = <<>>
    /\ idx = 1
    /\ sentence_analyses = <<>>
    /\ total_biased_count = 0
    /\ unit_run = NoRun
    /\ response = NoResponse
    /\ workers = [w \in 1..NumWorkers |-> "idle"]

Next ==
    \/ Lifespan
    \/ AnalyzeTextBegin
    \/ AnalyzeTextUnit
    \/ AnalyzeTextReturn
    \/ get_status

Spec == Init /\ [][Next]_vars

(***************************************************************************)
(* Request texts at large.  InputSpec starts with text holding the text of *)
(* the request about to be handled (request.text), any sequence of at most *)
(* MaxTextLen characters of Alphabet or ExampleText, and runs the handler  *)
(* up to the start of its loop (main.py:535-547).                          *)
(***************************************************************************)
MaxTextLen == 3

Alphabet == {"a", "b", " ", ".", "!", "?"}

RECURSIVE TextsOfLen(_)
TextsOfLen(n) ==
    IF n = 0 THEN {<<>>}
    ELSE {Append(t, c) : t \in TextsOfLen(n - 1), c \in Alphabet}

\* "A. B! C?"
ExampleText == <<"A", ".", " ", "B", "!", " ", "C", "?">>

InputTexts == UNION {TextsOfLen(n) : n \in 0..MaxTextLen} \cup {ExampleText}

InputInit ==
    /\ GEMINI_API_KEY \in {"", "gemini-key"}
    /\ GROQ_API_KEY \in {"", GroqPlaceholderKey, "groq-key"}
    /\ gemini_model = None
    /\ groq_client = None
    /\ current_provider = "gemini"
    /\ gemini_quota_exceeded = FALSE
    /\ phase = "boot"
    /\ startup = [gemini_ctor |-> NotCalled, gemini_probe |-> NotCalled,
                  groq_ctor |-> NotCalled, groq_probe |-> NotCalled]
    /\ pc = "idle"
    /\ text \in InputTexts
    /\ sentences = <<>>
    /\ idx = 1
    /\ sentence_analyses = <<>>
    /\ total_biased_count = 0
    /\ unit_run = NoRun
    /\ response = NoResponse
    /\ workers = [w \in 1..NumWorkers |-> "idle"]

\* main.py:535-547 applied to the pending request text
AnalyzeTextInput ==
    /\ phase = "serving"
    /\ pc = "idle"
    /\ BeginWith(text)
    /\ UNCHANGED <<workers, GEMINI_API_KEY, GROQ_API_KEY, provider_vars, phase, startup>>

InputNext ==
    \/ Lifespan
    \/ AnalyzeTextInput

InputSpec == InputInit /\ [][InputNext]_vars

(***************************************************************************)
(* Concurrent callers.  The service as written never interleaves two       *)
(* requests (no handler awaits).  ConcSpec drops that: NumWorkers callers  *)
(* run analyze_text_with_fallback (main.py:400-438) on the shared globals  *)
(* and may be preempted before and after every remote call, as they would  *)
(* be if the handlers ran in threads or awaited the provider.  A worker's  *)
(* position is the statement it executes next.  GET /status is served at   *)
(* any moment in between.                                                  *)
(***************************************************************************)
WorkerSentence == <<"a">>

other_vars == <<GEMINI_API_KEY, GROQ_API_KEY, gemini_model, groq_client,
                phase, startup, request_vars, response>>

\* main.py:405: the first guard is evaluated
WorkerEnter(w) ==
    /\ phase = "serving"
    /\ workers[w] = "idle"
    /\ workers' = [workers EXCEPT ![w] =
                      IF TryGeminiFirst(current_provider, gemini_quota_exceeded)
                      THEN "gemini" ELSE "groq_guard"]
    /\ UNCHANGED <<other_vars, current_provider, gemini_quota_exceeded>>

\* main.py:406-417 and 429-433: a Gemini call returns or raises.  After the
\* first call an error updates the globals and falls through to line 420;
\* after the retry of line 429 the function ends either way.
WorkerGemini(w) ==
    /\ workers[w] \in {"gemini", "gemini_again"}
    /\ \E sdk \in SdkOutcomes :
          LET r == analyze_text_with_gemini(WorkerSentence, sdk) IN
          IF ~r.raised \/ workers[w] = "gemini_again"
          THEN /\ workers' = [workers EXCEPT ![w] = "idle"]
               /\ UNCHANGED <<current_provider, gemini_quota_exceeded>>
          ELSE LET g == AfterGeminiError(StrOfHTTPException(r.exc),
                            current_provider, gemini_quota_exceeded)
               IN /\ current_provider' = g.current_provider
                  /\ gemini_quota_exceeded' = g.gemini_quota_exceeded
                  /\ workers' = [workers EXCEPT ![w] = "groq_guard"]
    /\ UNCHANGED other_vars

\* main.py:420: the second guard is evaluated; 435 when it is false
WorkerGroqGuard(w) ==
    /\ workers[w] = "groq_guard"
    /\ workers' = [workers EXCEPT ![w] =
                      IF TryGroq(current_provider) THEN "groq" ELSE "idle"]
    /\ UNCHANGED <<other_vars, current_provider, gemini_quota_exceeded>>

\* main.py:421-428: the Groq call returns or raises
WorkerGroq(w) ==
    /\ workers[w] = "groq"
    /\ \E sdk \in SdkOutcomes :
          LET r == analyze_text_with_groq(WorkerSentence, sdk) IN
          IF ~r.raised
          THEN /\ workers' = [workers EXCEPT ![w] = "idle"]
               /\ UNCHANGED current_provider
          ELSE IF TryGeminiAgain(gemini_quota_exceeded)
          THEN /\ current_provider' = "gemini"
               /\ workers' = [workers EXCEPT ![w] = "gemini_again"]
          ELSE /\ workers' = [workers EXCEPT ![w] = "idle"]
               /\ UNCHANGED current_provider
    /\ UNCHANGED <<other_vars, gemini_quota_exceeded>>

ConcNext ==
    \/ Lifespan
    \/ \E w \in 1..NumWorkers : WorkerEnter(w)
    \/ \E w \in 1..NumWorkers : WorkerGemini(w)
    \/ \E w \in 1..NumWorkers : WorkerGroqGuard(w)
    \/ \E w \in 1..NumWorkers : WorkerGroq(w)
    \/ get_status

ConcSpec == Init /\ [][ConcNext]_vars

(***************************************************************************)
(* Vocabulary of the properties                                            *)
(***************************************************************************)
\* A step that runs analyze_text_with_fallback for one sentence.
UnitStep == pc = "loop" /\ idx' = idx + 1

\* In a state inside the loop: some sentence has been analysed, and
\* unit_run is that analysis.
UnitDone == pc = "loop" /\ idx > 1

\* The SDK messages that report rate or quota limiting.
QuotaSignals ==
    { <<"429", "Too", "Many", "Requests">>,
      <<"Quota", "exceeded", "for", "metric">> }

QuotaFailure(sdk) == sdk.kind = "raise" /\ sdk.body \in QuotaSignals
OtherFailure(sdk) == sdk.kind = "raise" /\ sdk.body \notin QuotaSignals

Providers(calls) == [i \in 1..Len(calls) |-> calls[i].provider]

\* The record that claims no bias for a sentence.
NeutralRecord(sentence) == SentenceAnalysis(sentence, <<>>, sentence)

(***************************************************************************)
(* C1: quota failover.  In an analysis that starts with Gemini active and  *)
(* not flagged, Groq configured, and whose Gemini call fails with a quota  *)
(* error: Groq is called next for the same sentence, the analysis returns  *)
(* Groq's result if that call succeeds, and afterwards current_provider is *)
(* "groq" and gemini_quota_exceeded is true.  From such a state every      *)
(* later analysis calls Groq only, and the state stays.                    *)
(***************************************************************************)
C1_QuotaFailover ==
    [][ /\ ( /\ UnitStep
             /\ current_provider = "gemini"
             /\ ~gemini_quota_exceeded
             /\ groq_client # None
             /\ unit_run'.calls # <<>>
             /\ unit_run'.calls[1].provider = "gemini"
             /\ QuotaFailure(unit_run'.calls[1].sdk) )
           => /\ Len(unit_run'.calls) = 2
              /\ unit_run'.calls[2].provider = "groq"
              /\ unit_run'.sentence = sentences[idx]
              /\ ~unit_run'.calls[2].result.raised
                    => unit_run'.outcome = unit_run'.calls[2].result
              /\ current_provider' = "groq"
              /\ gemini_quota_exceeded' = TRUE
        /\ ( /\ current_provider = "groq"
             /\ gemini_quota_exceeded
             /\ groq_client # None )
           => /\ current_provider' = "groq"
              /\ gemini_quota_exceeded'
              /\ UnitStep => /\ unit_run'.calls # <<>>
                              /\ \A i \in 1..Len(unit_run'.calls) :
                                    unit_run'.calls[i].provider = "groq"
      ]_vars

\* A sentence whose Gemini call hit the quota was answered by Groq, and the
\* switch is in place.
C1_Witness ==
    /\ UnitDone
    /\ Providers(unit_run.calls) = <<"gemini", "groq">>
    /\ QuotaFailure(unit_run.calls[1].sdk)
    /\ ~unit_run.outcome.raised
    /\ unit_run.outcome = unit_run.calls[2].result
    /\ current_provider = "groq"
    /\ gemini_quota_exceeded

(***************************************************************************)
(* C2: non-quota failover.  In an analysis that starts with Gemini active  *)
(* and not flagged, Groq configured, and whose Gemini call fails with a    *)
(* non-quota error: Groq is called once for that sentence, its result is   *)
(* returned if it succeeds, and current_provider is still "gemini" and     *)
(* gemini_quota_exceeded still false afterwards.                           *)
(***************************************************************************)
C2_NonQuotaFailover ==
    [][ ( /\ UnitStep
          /\ current_provider = "gemini"
          /\ ~gemini_quota_exceeded
          /\ groq_client # None
          /\ unit_run'.calls # <<>>
          /\ unit_run'.calls[1].provider = "gemini"
          /\ OtherFailure(unit_run'.calls[1].sdk) )
        => /\ Providers(unit_run'.calls) = <<"gemini", "groq">>
           /\ ~unit_run'.calls[2].result.raised
                 => unit_run'.outcome = unit_run'.calls[2].result
           /\ current_provider' = "gemini"
           /\ gemini_quota_exceeded' = FALSE
      ]_vars

(***************************************************************************)
(* C3: a sentence for which analyze_text_with_fallback raised (no provider *)
(* call succeeded) gets no neutral record in the list the report is built  *)
(* from.                                                                   *)
(***************************************************************************)
C3_NoFabricatedRecord ==
    ~( /\ UnitDone
       /\ unit_run.outcome.raised
       /\ Len(sentence_analyses) = idx - 1
       /\ sentence_analyses[idx - 1] = NeutralRecord(sentences[idx - 1]) )

(***************************************************************************)
(* C4: analyze_text_with_fallback returns only the result of a successful  *)
(* adapter call it made; with current_provider "none", or when every call  *)
(* it made failed, it raises the 503 "all providers unavailable"; with     *)
(* neither provider configured it raises it without any call and without   *)
(* changing the globals.                                                   *)
(***************************************************************************)
C4_ResultOnlyFromSuccess ==
    [][ UnitStep =>
          LET calls == unit_run'.calls
              n == Len(calls)
          IN /\ ~unit_run'.outcome.raised
                  => /\ n >= 1
                     /\ ~calls[n].result.raised
                     /\ unit_run'.outcome = calls[n].result
             /\ ( \/ current_provider = "none"
                  \/ \A i \in 1..n : calls[i].result.raised )
                  => unit_run'.outcome = Raised(AllProvidersUnavailable)
             /\ (gemini_model = None /\ groq_client = None)
                  => /\ unit_run'.outcome = Raised(AllProvidersUnavailable)
                     /\ calls = <<>>
                     /\ current_provider' = current_provider
                     /\ gemini_quota_exceeded' = gemini_quota_exceeded
      ]_vars

\* A sentence was analysed with no provider configured.
C4_Witness ==
    /\ UnitDone
    /\ gemini_model = None
    /\ groq_client = None
    /\ current_provider = "none"
    /\ unit_run.calls = <<>>
    /\ unit_run.outcome = Raised(AllProvidersUnavailable)

(***************************************************************************)
(* C5: a reply that holds no JSON object is never an error: the adapter    *)
(* that received it returns the neutral analysis of the sentence, and      *)
(* analyze_text_with_fallback makes no further call after it.              *)
(***************************************************************************)
HasJsonObject(toks) ==
    \E i \in 1..Len(toks) : \E j \in i..Len(toks) :
        LET parsed == json_loads(SubSeq(toks, i, j)) IN
        parsed.ok /\ parsed.value.kind = "dict"

C5_UnparsableReplyIsNeutral ==
    \A i \in 1..Len(unit_run.calls) :
        LET c == unit_run.calls[i] IN
        (c.sdk.kind = "reply" /\ ~HasJsonObject(c.sdk.body))
            => /\ c.result = Returned(NeutralAnalysis(unit_run.sentence))
               /\ i = Len(unit_run.calls)
               /\ unit_run.outcome = c.result

(***************************************************************************)
(* C6: once current_provider is "groq" it is "groq" in every later state.  *)
(***************************************************************************)
C6_SecondarySticky ==
    [][ current_provider = "groq" => current_provider' = "groq" ]_vars

\* Groq was active, its call for a sentence failed, and it is still active.
C6_Witness ==
    /\ UnitDone
    /\ unit_run.calls # <<>>
    /\ unit_run.calls[1].provider = "groq"
    /\ unit_run.calls[1].result.raised
    /\ gemini_model # None
    /\ current_provider = "groq"

(***************************************************************************)
(* C7: once gemini_quota_exceeded is true it stays true, and no analysis   *)
(* that starts afterwards calls Gemini.                                    *)
(***************************************************************************)
C7_QuotaLongLived ==
    [][ gemini_quota_exceeded
          => /\ gemini_quota_exceeded'
             /\ UnitStep => \A i \in 1..Len(unit_run'.calls) :
                                unit_run'.calls[i].provider # "gemini"
      ]_vars

\* The quota was found exhausted while serving (the startup probe was fine),
\* and a sentence analysed after that went to Groq, which failed.
C7_Witness ==
    /\ pc = "loop"
    /\ idx = 3
    /\ startup.gemini_probe = Ok
    /\ gemini_quota_exceeded
    /\ Providers(unit_run.calls) = <<"groq">>
    /\ unit_run.calls[1].result.raised

(***************************************************************************)
(* C8: one analyze_text_with_fallback invocation makes at most two adapter *)
(* calls, and at most one to each provider.                                *)
(***************************************************************************)
C8_AtMostTwoCalls ==
    /\ Len(unit_run.calls) <= 2
    /\ \A i, j \in 1..Len(unit_run.calls) :
          i # j => unit_run.calls[i].provider # unit_run.calls[j].provider

\* Both providers were called for one sentence and both failed.
C8_Witness ==
    /\ UnitDone
    /\ Len(unit_run.calls) = 2
    /\ unit_run.calls[1].result.raised
    /\ unit_run.calls[2].result.raised

(***************************************************************************)
(* C9: whenever current_provider is "groq", Groq is configured; the same   *)
(* holds of every /status response.                                        *)
(***************************************************************************)
C9_SecondaryActiveImpliesConfigured ==
    /\ current_provider = "groq" => groq_client # None
    /\ (response.kind = "status" /\ response.current_provider = "groq")
          => response.groq_available

(***************************************************************************)
(* C10: startup selection.  Right after lifespan: current_provider is      *)
(* "gemini" iff Gemini is configured and its probe reported no quota       *)
(* error; otherwise "groq" iff Groq is configured; otherwise "none".       *)
(* gemini_quota_exceeded is true iff Gemini's initialisation or probe      *)
(* failed with a quota error.                                              *)
(***************************************************************************)
PrimaryConfiguredAtStartup(key, st) == key # "" /\ st.gemini_ctor = Ok

SecondaryConfiguredAtStartup(key, st) ==
    key \notin {"", GroqPlaceholderKey} /\ st.groq_ctor = Ok

C10_StartupSelection ==
    [][ (phase = "boot" /\ phase' = "serving") =>
          LET st == startup'
              primary == PrimaryConfiguredAtStartup(GEMINI_API_KEY', st)
              secondary == SecondaryConfiguredAtStartup(GROQ_API_KEY', st)
              probeQuota == QuotaFailure(st.gemini_probe)
              initQuota == QuotaFailure(st.gemini_ctor)
          IN /\ (gemini_model' # None) <=> primary
             /\ (groq_client' # None) <=> secondary
             /\ current_provider' =
                    IF primary /\ ~probeQuota THEN "gemini"
                    ELSE IF secondary THEN "groq"
                    ELSE "none"
             /\ gemini_quota_exceeded' <=> (initQuota \/ probeQuota)
      ]_vars

\* Startup found Gemini's quota exhausted and chose Groq.
C10_Witness ==
    /\ phase = "serving"
    /\ pc = "idle"
    /\ response = NoResponse
    /\ QuotaFailure(startup.gemini_probe)
    /\ gemini_model # None
    /\ gemini_quota_exceeded
    /\ current_provider = "groq"

(***************************************************************************)
(* C11: gemini_quota_exceeded is monotone under every interleaving of      *)
(* concurrent callers: once true, no step of any caller makes it false.    *)
(***************************************************************************)
C11_QuotaFlagMonotone ==
    [][ gemini_quota_exceeded => gemini_quota_exceeded' ]_vars

\* The race: one caller passed the guard of line 405 before another caller
\* set the flag, and is about to call Gemini with the flag already set.
C11_Witness ==
    /\ gemini_quota_exceeded
    /\ \E w \in 1..NumWorkers : workers[w] = "gemini"

(***************************************************************************)
(* C12: a returned report has exactly one SentenceAnalysis per segmented   *)
(* unit of its text, in input order, whatever the providers did.           *)
(***************************************************************************)
C12_OneRecordPerUnit ==
    response.kind = "report" =>
        LET units == Segment(response.original_text) IN
        /\ units # <<>>
        /\ Len(response.sentences) = Len(units)
        /\ \A i \in 1..Len(units) : response.sentences[i].sentence = units[i]

\* A report for two units whose records differ in kind: one came from a
\* provider's spans, the other is a no-span record.
C12_Witness ==
    /\ response.kind = "report"
    /\ Len(response.sentences) = 2
    /\ response.sentences[1].sentence # response.sentences[2].sentence
    /\ response.sentences[1].biased_spans = <<>>
    /\ response.sentences[2].biased_spans # <<>>

RECURSIVE SpanTotal(_)
SpanTotal(analyses) ==
    IF analyses = <<>> THEN 0
    ELSE Len(Head(analyses).biased_spans) + SpanTotal(Tail(analyses))

(***************************************************************************)
(* C13: in every returned report summary.biased_count is the sum over the  *)
(* report's sentences of the number of biased_spans of each record.        *)
(***************************************************************************)
C13_CountIsSpanTotal ==
    response.kind = "report" =>
        response.summary.biased_count = SpanTotal(response.sentences)

\* A report mixing a record with two spans and a record without spans.
C13_Witness ==
    /\ response.kind = "report"
    /\ response.summary.biased_count = 2
    /\ \E i, j \in 1..Len(response.sentences) :
          /\ Len(response.sentences[i].biased_spans) = 2
          /\ response.sentences[j].biased_spans = <<>>

(***************************************************************************)
(* C14: in every returned report summary.score is                         *)
(* min(biased_count / sentence_count, 1.0) rounded to two decimals: it     *)
(* lies in [0, 1], is 1.0 when biased_count >= sentence_count, and is      *)
(* otherwise within half a hundredth of the quotient.  Scores are in       *)
(* hundredths.                                                             *)
(***************************************************************************)
C14_ScoreIsRoundedRatio ==
    response.kind = "report" =>
        LET count == response.summary.biased_count
            n == Len(response.sentences)
            score == response.summary.score
            diff == 100 * count - score * n
        IN /\ n > 0
           /\ score \in 0..100
           /\ count >= n => score = 100
           /\ count < n => (2 * diff <= n /\ -2 * diff <= n)

\* A report whose quotient has no exact two-decimal value: two spans in
\* three sentences, reported as 0.67.
C14_Witness ==
    /\ response.kind = "report"
    /\ Len(response.sentences) = 3
    /\ response.summary.biased_count = 2
    /\ response.summary.score = 67

\* The pieces of t between maximal runs of terminators, as index intervals:
\* lo starts a piece, hi ends the piece that starts at lo.
PieceStarts(t) ==
    {i \in 1..Len(t) : t[i] \notin Terminators
                          /\ (i = 1 \/ t[i - 1] \in Terminators)}

PieceEnd(t, lo) ==
    CHOOSE hi \in lo..Len(t) :
        /\ \A k \in lo..hi : t[k] \notin Terminators
        /\ (hi = Len(t) \/ t[hi + 1] \in Terminators)

Blank(t, lo) == \A k \in lo..PieceEnd(t, lo) : t[k] \in Whitespace

\* the piece that starts at lo without its surrounding whitespace
Trimmed(t, lo) ==
    LET inked == {k \in lo..PieceEnd(t, lo) : t[k] \notin Whitespace}
    IN SubSeq(t, Min(inked), Max(inked))

UnitStarts(t) == {lo \in PieceStarts(t) : ~Blank(t, lo)}

(***************************************************************************)
(* C15: the sentences of a request are the pieces of its text between      *)
(* maximal runs of '.', '!' and '?', trimmed, without the blank ones, in   *)
(* the order of the text; every unit is non-empty, has no surrounding      *)
(* whitespace and no terminator; "A. B! C?" gives A, B, C.                 *)
(***************************************************************************)
C15_Segmentation ==
    pc = "loop" =>
        /\ Len(sentences) = Cardinality(UnitStarts(text))
        /\ \A lo \in UnitStarts(text) :
              sentences[Cardinality({l \in UnitStarts(text) : l <= lo})]
                  = Trimmed(text, lo)
        /\ \A i \in 1..Len(sentences) :
              LET u == sentences[i] IN
              /\ u # <<>>
              /\ u[1] \notin Whitespace
              /\ u[Len(u)] \notin Whitespace
              /\ \A k \in 1..Len(u) : u[k] \notin Terminators
        /\ text = ExampleText =>
              sentences = << <<"A">>, <<"B">>, <<"C">> >>

\* A text whose pieces need trimming and dropping: the three units of the
\* example text.
C15_Witness ==
    /\ pc = "loop"
    /\ text = ExampleText
    /\ Len(sentences) = 3

\* No character of t belongs to a unit.
NoUnit(t) == \A i \in 1..Len(t) : t[i] \in Whitespace \cup Terminators

(***************************************************************************)
(* C16: a request whose text has no analyzable unit (empty, whitespace     *)
(* only, or terminators and whitespace only) is answered with a 400 error  *)
(* without entering the loop that calls the providers: no provider call is *)
(* recorded and the provider state is unchanged.                           *)
(***************************************************************************)
C16_NoUnitRejected ==
    [][ (phase = "serving" /\ pc = "idle" /\ NoUnit(text)) =>
            /\ response'.kind = "error"
            /\ response'.status_code = "400"
            /\ pc' = "idle"
            /\ unit_run' = NoRun
            /\ provider_vars' = provider_vars ]_vars

\* A text of terminators and whitespace only was rejected.
C16_Witness ==
    /\ text # <<>>
    /\ Strip(text) # <<>>
    /\ NoUnit(text)
    /\ response = HttpError("400", "No valid sentences found")

\* The wrappings of a bare JSON object that a reply may come in.
Wrappings(object) ==
    { <<"FENCE", "json", "\n">> \o object \o <<"\n", "FENCE">>,
      <<"FENCE", "\n">> \o object \o <<"\n", "FENCE">>,
      <<"prose">> \o object \o <<"prose">> }

AdapterResult(provider, txt, sdk) ==
    IF provider = "gemini" THEN analyze_text_with_gemini(txt, sdk)
    ELSE analyze_text_with_groq(txt, sdk)

(***************************************************************************)
(* C17: for either provider, a reply that is a valid JSON object inside    *)
(* code-fence markers (with or without a language tag) or inside prose     *)
(* gives the same result as the bare object.                               *)
(***************************************************************************)
C17_WrappingInvariant ==
    \A i \in 1..Len(unit_run.calls) :
        LET c == unit_run.calls[i] IN
        \A b \in BodyTokens :
            (c.sdk.kind = "reply" /\ c.sdk.body \in Wrappings(<<"{", b, "}">>))
                => c.result = AdapterResult(c.provider, unit_run.sentence,
                                            Reply(<<"{", b, "}">>))

(***************************************************************************)
(* C18: the status query is read-only.  Whenever it answers, also between  *)
(* two steps of requests in flight, the answer carries the current active  *)
(* provider, the quota flag and whether each provider is configured, and   *)
(* the provider state, the configuration and the callers are as before.    *)
(***************************************************************************)
C18_StatusReadOnly ==
    [][ (response' # response /\ response'.kind = "status") =>
            /\ provider_vars' = provider_vars
            /\ <<GEMINI_API_KEY, GROQ_API_KEY, phase, startup, request_vars,
                  workers>>' =
               <<GEMINI_API_KEY, GROQ_API_KEY, phase, startup, request_vars,
                 workers>>
            /\ response'.current_provider = current_provider
            /\ response'.gemini_quota_exceeded = gemini_quota_exceeded
            /\ response'.gemini_available = (gemini_model # None)
            /\ response'.groq_available = (groq_client # None) ]_vars

\* The status was read after a failover while a caller was still between
\* two of its steps.
C18_Witness ==
    /\ response.kind = "status"
    /\ response.current_provider = "groq"
    /\ response.gemini_quota_exceeded
    /\ response.gemini_available
    /\ \E w \in 1..NumWorkers : workers[w] # "idle"

(***************************************************************************)
(* C19: when the first provider call made for a unit succeeds, it is the   *)
(* only call made for that unit and the provider state is as before,       *)
(* whichever provider was active.                                          *)
(***************************************************************************)
C19_SuccessLeavesState ==
    [][ (/\ UnitStep
         /\ unit_run'.calls # <<>>
         /\ ~unit_run'.calls[1].result.raised) =>
            /\ Len(unit_run'.calls) = 1
            /\ unit_run'.outcome = unit_run'.calls[1].result
            /\ provider_vars' = provider_vars ]_vars

\* Groq was active after a failover and answered the unit at once.
C19_Witness ==
    /\ UnitDone
    /\ Len(unit_run.calls) = 1
    /\ unit_run.calls[1].provider = "groq"
    /\ ~unit_run.calls[1].result.raised
    /\ current_provider = "groq"
    /\ gemini_quota_exceeded
    /\ gemini_model # None

(***************************************************************************)
(* C20: every BiasedSpan of a returned report has start < end; a span      *)
(* received with start >= end is not passed into the report.               *)
(***************************************************************************)
C20_SpansWellFormed ==
    response.kind = "report" =>
        \A i \in 1..Len(response.sentences) :
            \A k \in 1..Len(response.sentences[i].biased_spans) :
                response.sentences[i].biased_spans[k].start
                    < response.sentences[i].biased_spans[k].end

(***************************************************************************)
(* C21: whenever current_provider is "groq", the quota flag is set or      *)
(* Gemini is not configured; hence the branch that retries Gemini after a  *)
(* failed Groq call (main.py:426-432) is never taken: no unit has a Gemini *)
(* call after a Groq call, and no unit moves current_provider from "groq"  *)
(* back to "gemini".                                                       *)
(***************************************************************************)
C21_SecondaryImpliesPrimaryOut ==
    [][ /\ current_provider' = "groq"
            => (gemini_quota_exceeded' \/ gemini_model' = None)
        /\ UnitStep =>
              /\ \A i \in 2..Len(unit_run'.calls) :
                    ~(/\ unit_run'.calls[i - 1].provider = "groq"
                      /\ unit_run'.calls[i].provider = "gemini")
              /\ ~(current_provider = "groq" /\ current_provider' = "gemini")
      ]_vars

\* Gemini is configured, its quota ran out while serving, and the Groq call
\* that followed failed too: line 426 was evaluated and the unit ended with
\* the 503 of line 435.
C21_Witness ==
    /\ UnitDone
    /\ Providers(unit_run.calls) = <<"gemini", "groq">>
    /\ unit_run.calls[2].result.raised
    /\ unit_run.outcome = Raised(AllProvidersUnavailable)
    /\ gemini_model # None
    /\ current_provider = "groq"

(***************************************************************************)
(* C22: after startup, in every state between two unit analyses, a set     *)
(* quota flag implies that current_provider is not "gemini".               *)
(***************************************************************************)
C22_FlaggedPrimaryNotActive ==
    (phase = "serving" /\ gemini_quota_exceeded) => current_provider # "gemini"

\* A request was answered after the quota ran out while serving.
C22_Witness ==
    /\ phase = "serving"
    /\ pc = "idle"
    /\ response.kind = "report"
    /\ startup.gemini_probe = Ok
    /\ gemini_quota_exceeded
    /\ current_provider = "groq"

====
